---- MODULE Spec2Model ----
(***************************************************************************)
(* Model of the INHECO ODTC thermocycler client (src/tc.py): the shared    *)
(* request-id counter, the envelope builder send_command, get_state and    *)
(* the wait_until_idle wrapper around open_door, close_door and stop.      *)
(*                                                                         *)
(* The device is the environment: every request is answered by one element *)
(* of Responses, chosen nondeterministically.  issued is the wire history  *)
(* of the process: the requestId of every envelope POSTed, in order.  log  *)
(* is the history of the call in progress (or of the last call): one entry *)
(* per envelope POSTed and one per asyncio.sleep(1) completed.  posts says *)
(* for each envelope of the caller which ThermoCycler instance sent it and *)
(* whether the POST raised; cancels counts the idle-waits the caller       *)
(* abandoned.                                                              *)
(*                                                                         *)
(* The document encoder (MetaData.to_dict and the to_xml methods) is pure: *)
(* value is the program-model object handed to it, encoded its outcome.    *)
(***************************************************************************)
EXTENDS Integers, Sequences, FiniteSets, TLC

VARIABLES command_id, issued, log, pc, op, res, result, inst, posts, cancels,
          tpc, tcmd, tmp, treq, value, encoded

vars == <<command_id, issued, log, pc, op, res, result, inst, posts, cancels,
          tpc, tcmd, tmp, treq, value, encoded>>

callerVars == <<log, pc, op, res, result, inst, posts, cancels>>
threadVars == <<tpc, tcmd, tmp, treq>>
encVars == <<value, encoded>>
clientVars == <<command_id, issued, callerVars, threadVars>>

(* ---------------------------------------------------------------- bounds *)

\* At most this many envelopes are POSTed in one behaviour.
MaxRequests == 4

\* Number of OS threads that call send_command concurrently (SpecThreads).
NumThreads == 2

\* Number of ThermoCycler instances the caller has constructed.
NumInstances == 2

\* Longest steps list and longest pid_set list of an encoded Method.
MaxSteps == 2
MaxPids == 2

(* ------------------------------------------------------------- constants *)

\* class attribute ThermoCycler.command_id
InitialCommandId == 980077706

\* request_id hard-coded in get_status
StaleRequestId == 1305594243

\* asyncio.sleep(1) in wrapper
SleepSeconds == 1

Threads == 1..NumThreads

\* ThermoCycler(ip) objects, one per device address.
Instances == 1..NumInstances

Operations == {"open_door", "close_door", "stop"}

\* Variant: stop sends the name of the operation instead of StopMethod.
CommandOf_stop_name == [open_door |-> "OpenDoor", close_door |-> "CloseDoor", stop |-> "Stop"]

\* The command name each decorated operation passes to send_command.
CommandOf == [open_door |-> "OpenDoor", close_door |-> "CloseDoor", stop |-> "StopMethod"]

Commands == {"OpenDoor", "CloseDoor", "StopMethod", "GetStatus"}

(* ------------------------------------------------------------ the device *)

\* What the device (or the network) does with one POST.  transport is the
\* outcome of requests.post: "ok" (an HTTP response came back), "timeout" or
\* "refused".  status is the HTTP status; xml says whether the body parses as
\* XML; hasState whether it holds an s:state element; state is its text.
Resp(transport, status, xml, hasState, state) ==
    [transport |-> transport, status |-> status, xml |-> xml,
     hasState |-> hasState, state |-> state]

NoResp == Resp("none", 0, FALSE, FALSE, "")

StateTexts == {"idle", "busy", "inError"}

Responses ==
    {Resp("timeout", 0, FALSE, FALSE, ""), Resp("refused", 0, FALSE, FALSE, "")}
    \cup {Resp("ok", 200, TRUE, TRUE, s) : s \in StateTexts}
    \cup {Resp("ok", 200, TRUE, FALSE, ""), Resp("ok", 200, FALSE, FALSE, "")}
    \cup {Resp("ok", 500, FALSE, FALSE, ""), Resp("ok", 500, TRUE, TRUE, "idle")}

(* ------------------------------------------------------- pure operations *)

\* Outcome of a call: a value returned or an exception raised.
Return(v) == [raised |-> FALSE, error |-> "", value |-> v]
Raise(e) == [raised |-> TRUE, error |-> e, value |-> ""]

\* Variant: the two members' values exchanged.
DeviceStateMembers_swapped == [idle |-> "BUSY", busy |-> "IDLE"]

\* enum DeviceState: value -> member.
DeviceStateMembers == [idle |-> "IDLE", busy |-> "BUSY"]

\* Variant: an enum with a _missing_ hook that maps unknown values to BUSY.
DeviceState_missing_busy(text) ==
    IF text \in DOMAIN DeviceStateMembers
    THEN Return(DeviceStateMembers[text])
    ELSE Return(DeviceStateMembers["busy"])

\* DeviceState(text): the member whose value is text, ValueError otherwise.
DeviceState(text) ==
    IF text \in DOMAIN DeviceStateMembers
    THEN Return(DeviceStateMembers[text])
    ELSE Raise("ValueError")

\* Variant: transport exceptions caught and an empty response returned.
requests_post_swallow(resp) == Return("response")

\* requests.post(..., timeout=self.timeout): raises on a timeout or a refused
\* connection; any HTTP response, 2xx or not, is returned (the code never
\* calls raise_for_status).
requests_post(resp) ==
    IF resp.transport = "timeout" THEN Raise("Timeout")
    ELSE IF resp.transport = "refused" THEN Raise("ConnectionError")
    ELSE Return("response")

\* Variant: status polls carry the request id hard-coded in get_status.
Envelope_stale_status(command, id) ==
    [command |-> command,
     requestId |-> IF command = "GetStatus" THEN StaleRequestId ELSE id,
     lockId |-> "nil", soapAction |-> command]

\* The request document of send_command: the command element, the requestId
\* read from the class attribute, a nil lockId, and the SOAPAction header.
Envelope(command, id) ==
    [command |-> command, requestId |-> id, lockId |-> "nil",
     soapAction |-> command]

NoEnvelope == [command |-> "", requestId |-> 0, lockId |-> "", soapAction |-> ""]

\* Variant: a body that cannot be read is taken as idle.
get_state_default_idle(resp) ==
    IF requests_post(resp).raised THEN requests_post(resp)
    ELSE IF ~resp.xml \/ ~resp.hasState THEN Return(DeviceStateMembers["idle"])
    ELSE DeviceState(resp.state)

\* get_state once get_status1 got the answer resp: ET.fromstring, find, .text,
\* DeviceState(...).  Each failure is the exception Python raises there.
get_state(resp) ==
    IF requests_post(resp).raised THEN requests_post(resp)
    ELSE IF ~resp.xml THEN Raise("ParseError")
    ELSE IF ~resp.hasState THEN Raise("AttributeError")
    ELSE DeviceState(resp.state)

\* Variant: the command's own response is trusted when it says idle.
wrapper_after_method_trusting(r) ==
    IF r.xml /\ r.hasState /\ r.state = "idle" THEN "returned" ELSE "polling"

\* wrapper, after `res = await method(...)`: the loop is entered whatever the
\* response r of the command is.
wrapper_after_method(r) == "polling"

\* Variant: no sleep between polls.
wrapper_after_poll_no_sleep(state) ==
    IF state = DeviceStateMembers["idle"] THEN "returned" ELSE "polling"

\* Variant: the loop breaks on BUSY instead of IDLE.
wrapper_after_poll_inverted(state) ==
    IF state = DeviceStateMembers["busy"] THEN "returned" ELSE "sleeping"

\* Variant: the loop gives up after its second poll that is not IDLE.
wrapper_after_poll_give_up(state) ==
    IF state = DeviceStateMembers["idle"] THEN "returned"
    ELSE IF Len(log) >= 3 THEN "raised" ELSE "sleeping"

\* Variant: the loop never breaks.
wrapper_after_poll_never_breaks(state) == "sleeping"

\* wrapper, one turn of the loop on the value get_state returned:
\* IDLE breaks and returns, anything else sleeps.
wrapper_after_poll(state) ==
    IF state = DeviceStateMembers["idle"] THEN "returned" ELSE "sleeping"

(* -------------------------------------------------------------- the log *)

ReqEntry(env, resp) ==
    [kind |-> "req", seconds |-> 0, envelope |-> env, resp |-> resp]
SleepEntry ==
    [kind |-> "sleep", seconds |-> SleepSeconds, envelope |-> NoEnvelope,
     resp |-> NoResp]

NumRequests == Len(issued)

NoResult == [raised |-> FALSE, error |-> "", response |-> NoResp, state |-> ""]
Returned(resp, state) == [raised |-> FALSE, error |-> "", response |-> resp, state |-> state]
Raised(e) == [raised |-> TRUE, error |-> e, response |-> NoResp, state |-> ""]

(* ------------------------------------------------------------ operations *)

\* Variant: each instance counts its own requests.
read_command_id_per_instance(self) ==
    InitialCommandId + 1
        + Cardinality({i \in 1..Len(posts) : posts[i].self = self})

\* line 317: the f-string reads the class attribute ThermoCycler.command_id,
\* whatever instance self is, after line 310 has incremented it.
read_command_id(self) == command_id'

\* Variant: the id is given back when the POST raises.
send_command_rollback(self, command, resp, first) ==
    /\ NumRequests < MaxRequests
    /\ command_id' = IF requests_post(resp).raised
                     THEN command_id ELSE command_id + 1
    /\ issued' = Append(issued, Envelope(command, command_id + 1).requestId)
    /\ posts' = Append(posts, [self |-> self, failed |-> requests_post(resp).raised])
    /\ log' = Append(IF first THEN <<>> ELSE log,
                     ReqEntry(Envelope(command, command_id + 1), resp))

\* self.send_command(command), answered by resp: the counter is incremented,
\* the envelope carries the new value, the POST is made.
\* first is TRUE when the call starts a new caller-level call (a new log).
send_command(self, command, resp, first) ==
    /\ NumRequests < MaxRequests
    /\ command_id' = command_id + 1
    /\ issued' = Append(issued, Envelope(command, read_command_id(self)).requestId)
    /\ posts' = Append(posts, [self |-> self, failed |-> requests_post(resp).raised])
    /\ log' = Append(IF first THEN <<>> ELSE log,
                     ReqEntry(Envelope(command, read_command_id(self)), resp))

get_status1(self, resp, first) == send_command(self, "GetStatus", resp, first)

AtRest == pc \in {"ready", "returned", "raised"}

\* A decorated operation is called: wrapper runs method (send_command) first.
wrapper_call(name) ==
    /\ AtRest
    /\ \E self \in Instances, resp \in Responses :
        /\ send_command(self, CommandOf[name], resp, TRUE)
        /\ inst' = self
        /\ op' = name
        /\ IF requests_post(resp).raised
           THEN /\ pc' = "raised"
                /\ result' = Raised(requests_post(resp).error)
           ELSE /\ pc' = wrapper_after_method(resp)
                /\ result' = NoResult
        /\ res' = IF requests_post(resp).raised THEN NoResp ELSE resp
    /\ UNCHANGED <<cancels, threadVars, encVars>>

open_door == wrapper_call("open_door")
close_door == wrapper_call("close_door")
stop == wrapper_call("stop")

\* wrapper: `if await self.get_state() == DeviceState.IDLE: break`.
wrapper_poll ==
    /\ pc = "polling"
    /\ \E resp \in Responses :
        /\ get_status1(inst, resp, FALSE)
        /\ IF get_state(resp).raised
           THEN /\ pc' = "raised"
                /\ result' = Raised(get_state(resp).error)
           ELSE /\ pc' = wrapper_after_poll(get_state(resp).value)
                /\ result' = IF pc' = "returned"
                             THEN Returned(res, "")
                             ELSE NoResult
    /\ UNCHANGED <<op, res, inst, cancels, threadVars, encVars>>

\* wrapper: `await asyncio.sleep(1)` completes.
wrapper_sleep ==
    /\ pc = "sleeping"
    /\ pc' = "polling"
    /\ log' = Append(log, SleepEntry)
    /\ UNCHANGED <<command_id, issued, op, res, result, inst, posts, cancels,
                   threadVars, encVars>>

\* Variant: wrapper catches CancelledError and goes on polling.
wrapper_cancel_swallowed ==
    /\ pc = "sleeping"
    /\ pc' = "polling"
    /\ cancels' = cancels + 1
    /\ UNCHANGED <<command_id, issued, log, op, res, result, inst, posts,
                   threadVars, encVars>>

\* wrapper: the task is cancelled while suspended in `await asyncio.sleep(1)`,
\* the only point where wrapper yields to the event loop: CancelledError is
\* raised there and leaves wrapper, which catches nothing.
wrapper_cancel ==
    /\ pc = "sleeping"
    /\ pc' = "raised"
    /\ result' = Raised("CancelledError")
    /\ cancels' = cancels + 1
    /\ UNCHANGED <<command_id, issued, log, op, res, inst, posts, threadVars, encVars>>

\* The caller awaits get_state() directly.
caller_get_state ==
    /\ AtRest
    /\ \E self \in Instances, resp \in Responses :
        /\ get_status1(self, resp, TRUE)
        /\ inst' = self
        /\ op' = "get_state"
        /\ IF get_state(resp).raised
           THEN /\ pc' = "raised"
                /\ result' = Raised(get_state(resp).error)
           ELSE /\ pc' = "returned"
                /\ result' = Returned(NoResp, get_state(resp).value)
    /\ UNCHANGED <<res, cancels, threadVars, encVars>>

\* The caller calls get_status1() directly: the raw response is returned.
caller_get_status1 ==
    /\ AtRest
    /\ \E self \in Instances, resp \in Responses :
        /\ get_status1(self, resp, TRUE)
        /\ inst' = self
        /\ op' = "get_status1"
        /\ IF requests_post(resp).raised
           THEN /\ pc' = "raised"
                /\ result' = Raised(requests_post(resp).error)
           ELSE /\ pc' = "returned"
                /\ result' = Returned(resp, "")
    /\ UNCHANGED <<res, cancels, threadVars, encVars>>

\* lines 254-305: get_status() formats an envelope around the fixed request
\* id 1305594243 and never sends it; it then parses a response text written
\* in the source, whose XML declaration follows a newline and four blanks, so
\* ET.fromstring raises ParseError (line 303) before the state is read.
get_status == Raise("ParseError")

\* The caller calls get_status(): nothing is sent, the counter is not
\* touched, the call ends as get_status ends.
caller_get_status ==
    /\ AtRest
    /\ \E self \in Instances : inst' = self
    /\ op' = "get_status"
    /\ log' = <<>>
    /\ IF get_status.raised
       THEN /\ pc' = "raised"
            /\ result' = Raised(get_status.error)
       ELSE /\ pc' = "returned"
            /\ result' = Returned(NoResp, get_status.value)
    /\ UNCHANGED <<command_id, issued, posts, res, cancels, threadVars, encVars>>

(* ----------------------------------- send_command called from OS threads *)

\* send_command and get_status1 are plain (non-async) methods and hold no
\* lock.  `ThermoCycler.command_id += 1` is a load of the class attribute, an
\* add and a store; the f-string reads the attribute again later; then comes
\* the POST.  Another thread may run between any two of these steps.

InFlight == Cardinality({t \in Threads : tpc[t] # "ready"})

\* line 310, first half: load ThermoCycler.command_id.
thread_load(t) ==
    /\ tpc[t] = "ready"
    /\ Len(issued) + InFlight < MaxRequests
    /\ \E command \in Commands : tcmd' = [tcmd EXCEPT ![t] = command]
    /\ tmp' = [tmp EXCEPT ![t] = command_id]
    /\ tpc' = [tpc EXCEPT ![t] = "loaded"]
    /\ UNCHANGED <<command_id, issued, treq, callerVars, encVars>>

\* line 310, second half: store the loaded value plus one.
thread_store(t) ==
    /\ tpc[t] = "loaded"
    /\ command_id' = tmp[t] + 1
    /\ tpc' = [tpc EXCEPT ![t] = "stored"]
    /\ UNCHANGED <<issued, tcmd, tmp, treq, callerVars, encVars>>

\* lines 311-324: the f-string reads ThermoCycler.command_id as it is now.
thread_format(t) ==
    /\ tpc[t] = "stored"
    /\ treq' = [treq EXCEPT ![t] = Envelope(tcmd[t], command_id)]
    /\ tpc' = [tpc EXCEPT ![t] = "built"]
    /\ UNCHANGED <<command_id, issued, tcmd, tmp, callerVars, encVars>>

\* lines 327-337: the POST; the envelope is on the wire and the call is over
\* (its locals are gone).
thread_post(t) ==
    /\ tpc[t] = "built"
    /\ issued' = Append(issued, treq[t].requestId)
    /\ tpc' = [tpc EXCEPT ![t] = "ready"]
    /\ tcmd' = [tcmd EXCEPT ![t] = ""]
    /\ tmp' = [tmp EXCEPT ![t] = 0]
    /\ treq' = [treq EXCEPT ![t] = NoEnvelope]
    /\ UNCHANGED <<command_id, callerVars, encVars>>

Load == \E t \in Threads : thread_load(t)
Store == \E t \in Threads : thread_store(t)
Format == \E t \in Threads : thread_format(t)
Post == \E t \in Threads : thread_post(t)

(* ---------------------------------------------------- document encoder *)

RECURSIVE Concat(_)
\* "".join(words)
Concat(words) ==
    IF words = <<>> THEN "" ELSE words[1] \o Concat(Tail(words))

\* A field name is kept as the list of its components, what split("_")
\* makes of the declared name.
SnakeName(components) ==
    Concat([i \in 1..Len(components) |->
              IF i = 1 THEN components[i] ELSE "_" \o components[i]])

\* str.title() on the components that occur in the declared field names.
Title(word) ==
    CASE word = "method" -> "Method" [] word = "name" -> "Name"
      [] word = "creator" -> "Creator" [] word = "description" -> "Description"
      [] word = "date" -> "Date" [] word = "time" -> "Time"
      [] word = "number" -> "Number" [] word = "slope" -> "Slope"
      [] word = "plateau" -> "Plateau" [] word = "temperature" -> "Temperature"
      [] word = "over" -> "Over" [] word = "shoot" -> "Shoot"
      [] word = "1" -> "1" [] word = "2" -> "2"
      [] word = "goto" -> "Goto" [] word = "loop" -> "Loop"
      [] word = "pid" -> "Pid" [] word = "lid" -> "Lid" [] word = "temp" -> "Temp"
      [] word = "p" -> "P" [] word = "i" -> "I" [] word = "d" -> "D"
      [] word = "heating" -> "Heating" [] word = "cooling" -> "Cooling"
      [] word = "variant" -> "Variant" [] word = "plate" -> "Plate"
      [] word = "type" -> "Type" [] word = "fluid" -> "Fluid"
      [] word = "quantity" -> "Quantity" [] word = "post" -> "Post"
      [] word = "start" -> "Start" [] word = "block" -> "Block"
      [] word = "target" -> "Target"

to_pascal_case(components) ==
    Concat([i \in 1..Len(components) |-> Title(components[i])])

to_camel_case(components) ==
    components[1] \o Concat([i \in 1..Len(components) - 1 |-> Title(components[i + 1])])

\* fields(self) of each dataclass, in declaration order.  Method declares
\* start_lid_temperature twice; a dataclass keeps one field, at its first
\* place.
MetaDataFields ==
    << <<"method", "name">>, <<"creator">>, <<"description">>, <<"date", "time">> >>

MethodStepFields ==
    << <<"number">>, <<"slope">>, <<"plateau", "temperature">>,
       <<"plateau", "time">>, <<"over", "shoot", "slope", "1">>,
       <<"over", "shoot", "temperature">>, <<"over", "shoot", "time">>,
       <<"over", "shoot", "slope", "2">>, <<"goto", "number">>,
       <<"loop", "number">>, <<"pid", "number">>, <<"lid", "temp">> >>

PIDMemberFields ==
    << <<"number">>, <<"p", "heating">>, <<"p", "cooling">>, <<"i", "heating">>,
       <<"i", "cooling">>, <<"d", "heating">>, <<"d", "cooling">>,
       <<"p", "lid">>, <<"i", "lid">> >>

MethodFields ==
    << <<"variant">>, <<"plate", "type">>, <<"fluid", "quantity">>,
       <<"post", "heating">>, <<"start", "block", "temperature">>,
       <<"start", "lid", "temperature">>, <<"steps">>, <<"pid", "set">>,
       <<"metadata">> >>

\* The declared type of a field, which decides what str() prints.
FieldType(snake) ==
    IF snake \in {"slope", "over_shoot_slope_1", "over_shoot_slope_2"} THEN "float"
    ELSE IF snake = "post_heating" THEN "bool"
    ELSE "int"

\* str(v).  A float is kept in tenths: 44 is 4.4.
PyStr(v, type) ==
    IF type = "bool" THEN (IF v THEN "True" ELSE "False")
    ELSE IF type = "float" THEN ToString(v \div 10) \o "." \o ToString(v % 10)
    ELSE ToString(v)

\* Python's None among string values.
PyNone == "<None>"

Pad2(n) == IF n < 10 THEN "0" \o ToString(n) ELSE ToString(n)

Pad6(n) ==
    IF n < 10 THEN "00000" \o ToString(n)
    ELSE IF n < 100 THEN "0000" \o ToString(n)
    ELSE IF n < 1000 THEN "000" \o ToString(n)
    ELSE IF n < 10000 THEN "00" \o ToString(n)
    ELSE IF n < 100000 THEN "0" \o ToString(n)
    ELSE ToString(n)

\* datetime.isoformat() of a naive datetime with a four-digit year.
isoformat(dt) ==
    ToString(dt.year) \o "-" \o Pad2(dt.month) \o "-" \o Pad2(dt.day) \o "T"
      \o Pad2(dt.hour) \o ":" \o Pad2(dt.minute) \o ":" \o Pad2(dt.second)
      \o (IF dt.microsecond = 0 THEN "" ELSE "." \o Pad6(dt.microsecond))

\* ET.Element(tag), with its attrib, text and children.
Element(tag, attrib, text, children) ==
    [tag |-> tag, attrib |-> attrib, text |-> text, children |-> children]

NoAttrib == [k \in {} |-> ""]

\* One text child of the flat field loop.
TextChild(self, components) ==
    Element(to_pascal_case(components), NoAttrib,
            PyStr(self[SnakeName(components)], FieldType(SnakeName(components))),
            <<>>)

\* Variant: empty values are left out of the mapping.
MetaData_to_dict_skip_empty(self) ==
    [k \in {to_camel_case(MetaDataFields[i]) :
               i \in {j \in 1..Len(MetaDataFields) :
                         \/ SnakeName(MetaDataFields[j]) = "date_time"
                         \/ self[SnakeName(MetaDataFields[j])] \notin {"", PyNone}}} |->
        LET f == CHOOSE c \in {MetaDataFields[i] : i \in 1..Len(MetaDataFields)} :
                     to_camel_case(c) = k
        IN  IF SnakeName(f) = "date_time" THEN isoformat(self.date_time)
            ELSE self[SnakeName(f)]]

\* MetaData.to_dict: one key per field, camelCase; date_time as isoformat,
\* any other value v as `v or ""`.
MetaData_to_dict(self) ==
    [k \in {to_camel_case(MetaDataFields[i]) : i \in 1..Len(MetaDataFields)} |->
        LET f == CHOOSE c \in {MetaDataFields[i] : i \in 1..Len(MetaDataFields)} :
                     to_camel_case(c) = k
            v == self[SnakeName(f)]
        IN  IF SnakeName(f) = "date_time" THEN isoformat(v)
            ELSE IF v \in {"", PyNone} THEN "" ELSE v]

\* MethodStep.to_xml: a Step element with one text child per field.  Nothing
\* is validated.
MethodStep_to_xml(self) ==
    Element("Step", NoAttrib, "",
            [i \in 1..Len(MethodStepFields) |-> TextChild(self, MethodStepFields[i])])

IsNotNumber(components) == components # <<"number">>

\* PIDMember.to_xml: number becomes an attribute, the gains text children.
PIDMember_to_xml(self) ==
    LET shown == SelectSeq(PIDMemberFields, IsNotNumber)
    IN  Element("PID", [number |-> self.number], "",
                [i \in 1..Len(shown) |->
                    Element(to_pascal_case(shown[i]), NoAttrib,
                            ToString(self[SnakeName(shown[i])]), <<>>)])

IsScalarField(components) ==
    SnakeName(components) \notin {"metadata", "steps", "pid_set"}

\* Variant: the steps are appended last to first.
Method_to_xml_reversed(self) ==
    LET scalars == SelectSeq(MethodFields, IsScalarField)
        n == Len(self.steps)
    IN  Element("Method", MetaData_to_dict(self.metadata), "",
                [i \in 1..Len(scalars) |-> TextChild(self, scalars[i])]
                \o [i \in 1..n |-> MethodStep_to_xml(self.steps[n + 1 - i])]
                \o << Element("PIDSet", NoAttrib, "",
                        [i \in 1..Len(self.pid_set) |-> PIDMember_to_xml(self.pid_set[i])]) >>)

\* Method.to_xml: the scalar fields, then the steps, then one PIDSet; the
\* metadata as attributes of the root.
Method_to_xml(self) ==
    LET scalars == SelectSeq(MethodFields, IsScalarField)
    IN  Element("Method", MetaData_to_dict(self.metadata), "",
                [i \in 1..Len(scalars) |-> TextChild(self, scalars[i])]
                \o [i \in 1..Len(self.steps) |-> MethodStep_to_xml(self.steps[i])]
                \o << Element("PIDSet", NoAttrib, "",
                        [i \in 1..Len(self.pid_set) |-> PIDMember_to_xml(self.pid_set[i])]) >>)

(* ------------------------------------------------- inputs of the encoder *)

NoValue == [kind |-> "none"]
NotEncoded == [done |-> FALSE]
Encoded(out) == [done |-> TRUE, raised |-> FALSE, out |-> out]

DateTimes ==
    {[year |-> 2024, month |-> 9, day |-> 12, hour |-> 10, minute |-> 35,
      second |-> 20, microsecond |-> 0],
     [year |-> 2025, month |-> 1, day |-> 2, hour |-> 3, minute |-> 4,
      second |-> 5, microsecond |-> 678]}

MetaDatas ==
    [method_name : {"pcr"}, creator : {"", "jk", PyNone},
     description : {"", "demo", PyNone}, date_time : DateTimes]

\* The metadata given to the Methods that are encoded.
MethodMetaDatas ==
    {m \in MetaDatas : m.creator # PyNone /\ m.description = "" /\ m.date_time.microsecond = 0}

MethodStepOf(number, goto_number) ==
    [number |-> number, slope |-> 44, plateau_temperature |-> 95,
     plateau_time |-> 30, over_shoot_slope_1 |-> 1, over_shoot_temperature |-> 0,
     over_shoot_time |-> 0, over_shoot_slope_2 |-> 22,
     goto_number |-> goto_number,
     loop_number |-> IF goto_number = 0 THEN 0 ELSE 3,
     pid_number |-> 1, lid_temp |-> 110]

\* Steps as a caller can construct them: the dataclass checks nothing.
MethodSteps == {MethodStepOf(n, g) : n \in 1..MaxSteps, g \in 0..MaxSteps}

PIDMemberOf(number) ==
    [number |-> number, p_heating |-> 60, p_cooling |-> 80, i_heating |-> 250,
     i_cooling |-> 100, d_heating |-> 10, d_cooling |-> 10, p_lid |-> 100,
     i_lid |-> 70]

PIDMembers == {PIDMemberOf("1"), PIDMemberOf("2")}

SeqsUpTo(S, n) == UNION {[1..k -> S] : k \in 0..n}

Methods ==
    [variant : {960000}, plate_type : {0}, fluid_quantity : {0},
     post_heating : BOOLEAN, start_block_temperature : {25},
     start_lid_temperature : {110}, steps : SeqsUpTo(MethodSteps, MaxSteps),
     pid_set : SeqsUpTo(PIDMembers, MaxPids), metadata : MethodMetaDatas]

EncoderInputs ==
    {[kind |-> "MetaData", self |-> m] : m \in MetaDatas}
    \cup {[kind |-> "MethodStep", self |-> st] : st \in MethodSteps}
    \cup {[kind |-> "Method", self |-> m] : m \in Methods}

\* value.to_dict() is called.
call_MetaData_to_dict ==
    /\ value.kind = "MetaData"
    /\ ~encoded.done
    /\ encoded' = Encoded(MetaData_to_dict(value.self))
    /\ UNCHANGED <<value, clientVars>>

\* value.to_xml() is called on a MethodStep.
call_MethodStep_to_xml ==
    /\ value.kind = "MethodStep"
    /\ ~encoded.done
    /\ encoded' = Encoded(MethodStep_to_xml(value.self))
    /\ UNCHANGED <<value, clientVars>>

\* value.to_xml() is called on a Method.
call_Method_to_xml ==
    /\ value.kind = "Method"
    /\ ~encoded.done
    /\ encoded' = Encoded(Method_to_xml(value.self))
    /\ UNCHANGED <<value, clientVars>>

(* ------------------------------------------------------- specifications *)

ClientInit ==
    /\ command_id = InitialCommandId
    /\ issued = <<>>
    /\ log = <<>>
    /\ pc = "ready"
    /\ op = ""
    /\ res = NoResp
    /\ result = NoResult
    /\ inst = 1
    /\ posts = <<>>
    /\ cancels = 0
    /\ tpc = [t \in Threads |-> "ready"]
    /\ tcmd = [t \in Threads |-> ""]
    /\ tmp = [t \in Threads |-> 0]
    /\ treq = [t \in Threads |-> NoEnvelope]

Init ==
    /\ ClientInit
    /\ value = NoValue
    /\ encoded = NotEncoded

Next ==
    \/ open_door
    \/ close_door
    \/ stop
    \/ wrapper_poll
    \/ wrapper_sleep
    \/ caller_get_state
    \/ caller_get_status1
    \/ caller_get_status

Spec == Init /\ [][Next]_vars

NextThreads ==
    \/ Load
    \/ Store
    \/ Format
    \/ Post

SpecThreads == Init /\ [][NextThreads]_vars

InitEncode ==
    /\ ClientInit
    /\ value \in EncoderInputs
    /\ encoded = NotEncoded

NextEncode ==
    \/ call_MetaData_to_dict
    \/ call_MethodStep_to_xml
    \/ call_Method_to_xml

SpecEncode == InitEncode /\ [][NextEncode]_vars

\* The caller may also cancel the task of an operation that is waiting.
NextCancel == Next \/ wrapper_cancel

SpecCancel == Init /\ [][NextCancel]_vars

(* ------------------------------------------------- vocabulary of the claims *)

\* The device's answer r carries the state text s.
Reports(r, s) == r.transport = "ok" /\ r.xml /\ r.hasState /\ r.state = s

\* The device's answer r carries some state text.
ReportsAState(r) == r.transport = "ok" /\ r.xml /\ r.hasState

IsPoll(i) == log[i].kind = "req" /\ log[i].envelope.command = "GetStatus"
IsSleep(i) == log[i].kind = "sleep" /\ log[i].seconds = 1

InOperation == op \in Operations

LastEntry == log[Len(log)]

NumPolls == Cardinality({i \in 2..Len(log) : IsPoll(i)})
NumSleeps == Cardinality({i \in 1..Len(log) : IsSleep(i)})
NumBusy == Cardinality({i \in 2..Len(log) : IsPoll(i) /\ Reports(log[i].resp, "busy")})

(* ----------------------------------------------------------------- C1 *)

\* C1: in open_door, close_door and stop the command is the first request
\* of the operation; once its response is received the next step is a
\* get_state poll, whatever the response contained; the operation returns
\* only right after a poll that observed idle, and it returns the response of
\* the command, not that of a poll.
C1_SendThenPollThenReturn ==
    InOperation =>
        /\ Len(log) >= 1
        /\ log[1].kind = "req"
        /\ log[1].envelope.command = CommandOf[op]
        /\ (Len(log) = 1 /\ log[1].resp.transport = "ok") => pc = "polling"
        /\ pc = "returned" =>
              /\ Len(log) >= 2
              /\ IsPoll(Len(log))
              /\ Reports(LastEntry.resp, "idle")
              /\ ~result.raised
              /\ result.response = log[1].resp

\* An operation whose command was answered "busy" returned after two busy
\* polls and an idle one.
C1_Witness ==
    /\ op = "stop"
    /\ pc = "returned"
    /\ Reports(log[1].resp, "busy")
    /\ NumPolls = 3

(* ----------------------------------------------------------------- C2 *)

\* C2: after the command, the operation's history is poll, (sleep, poll)*:
\* every sleep lasts one second and follows a poll that reported busy, a poll that reported idle is
\* the last entry, and an operation that returned after k busy polls made
\* k + 1 polls and k sleeps.
C2_PollCount ==
    InOperation =>
        /\ \A i \in 2..Len(log) :
              /\ (i % 2 = 0) => IsPoll(i)
              /\ (i % 2 = 1) => IsSleep(i) /\ Reports(log[i-1].resp, "busy")
              /\ (IsPoll(i) /\ Reports(log[i].resp, "idle")) => i = Len(log)
        /\ pc = "returned" =>
              /\ NumPolls = NumBusy + 1
              /\ NumSleeps = NumBusy
              /\ Len(log) = 2 * NumBusy + 2

\* The spec's case: busy, busy, idle.
C2_Witness ==
    /\ InOperation
    /\ pc = "returned"
    /\ NumBusy = 2
    /\ NumSleeps = 2
    /\ Reports(LastEntry.resp, "idle")

(* ----------------------------------------------------------------- C3 *)

\* C3 as stated: whenever the last poll of an idle-wait reported a state other
\* than idle, the operation is still waiting.
C3_Original ==
    (InOperation /\ Len(log) >= 2 /\ IsPoll(Len(log))
       /\ ReportsAState(LastEntry.resp) /\ LastEntry.resp.state # "idle")
    => pc = "sleeping"

\* C3 amended: the operation keeps waiting exactly when the poll reported
\* busy; a state that is neither idle nor busy ends it with ValueError.
C3_WaitsWhileBusy ==
    (InOperation /\ Len(log) >= 2 /\ IsPoll(Len(log))
       /\ ReportsAState(LastEntry.resp) /\ LastEntry.resp.state # "idle")
    => IF LastEntry.resp.state = "busy"
       THEN pc = "sleeping" /\ ~result.raised
       ELSE pc = "raised" /\ result.error = "ValueError"

\* The wait went on after a busy poll and ended at an inError poll.
C3_Witness ==
    /\ InOperation
    /\ Len(log) = 4
    /\ Reports(log[2].resp, "busy")
    /\ Reports(log[4].resp, "inError")
    /\ pc = "raised"

(* ----------------------------------------------------------------- C4 *)

\* C4: a poll of an idle-wait that reports inError is the operation's last
\* step: the operation is over, with ValueError, which is neither the normal
\* return nor the waiting state.
C4_InErrorEndsOperation ==
    InOperation =>
        \A i \in 2..Len(log) :
            (IsPoll(i) /\ Reports(log[i].resp, "inError")) =>
                /\ i = Len(log)
                /\ pc = "raised"
                /\ pc \notin {"returned", "polling", "sleeping"}
                /\ result.raised
                /\ result.error = "ValueError"

C4_Witness ==
    /\ op = "open_door"
    /\ Len(log) = 2
    /\ Reports(log[2].resp, "inError")
    /\ pc = "raised"

(* ----------------------------------------------------------------- C5 *)

\* C5: get_state returns IDLE exactly for the state text idle, BUSY exactly
\* for busy, and fails with ValueError, an error no other failure of get_state
\* produces, for any other state text.
C5_GetStateMapping ==
    (op = "get_state" /\ pc \in {"returned", "raised"}) =>
        LET r == log[1].resp IN
        /\ Reports(r, "idle") => pc = "returned" /\ result.state = "IDLE"
        /\ Reports(r, "busy") => pc = "returned" /\ result.state = "BUSY"
        /\ (ReportsAState(r) /\ r.state \notin {"idle", "busy"}) =>
              pc = "raised" /\ result.error = "ValueError"
        /\ (pc = "returned" /\ result.state = "IDLE") => Reports(r, "idle")
        /\ (pc = "returned" /\ result.state = "BUSY") => Reports(r, "busy")
        /\ pc = "returned" => result.state \in {"IDLE", "BUSY"}
        /\ (pc = "raised" /\ result.error = "ValueError") => ReportsAState(r)

C5_Witness ==
    /\ op = "get_state"
    /\ pc = "raised"
    /\ Reports(log[1].resp, "inError")
    /\ result.error = "ValueError"

(* ----------------------------------------------------------------- C6 *)

\* C6: every step that puts an envelope on the wire, whatever its command,
\* raises command_id by exactly 1 and the envelope carries the new value; the
\* counter changes in no other step; so the n-th envelope of the process
\* carries InitialCommandId + n.
C6_Step ==
    /\ (issued' # issued) =>
          /\ command_id' = command_id + 1
          /\ issued' = Append(issued, command_id')
          /\ log'[Len(log')].kind = "req"
          /\ log'[Len(log')].envelope.requestId = command_id'
    /\ (command_id' # command_id) => issued' # issued

C6_IncrementByOne == [][C6_Step]_vars

\* An operation and its polls have used four consecutive ids.
C6_Witness ==
    /\ op = "open_door"
    /\ pc = "returned"
    /\ NumPolls = 3
    /\ issued = <<InitialCommandId + 1, InitialCommandId + 2,
                  InitialCommandId + 3, InitialCommandId + 4>>
    /\ log[4].envelope.command = "GetStatus"
    /\ log[1].envelope.command = "OpenDoor"

(* ----------------------------------------------------------------- C7 *)

\* C7: with concurrent callers no increment is lost (once every call is
\* over, the counter has advanced by the number of envelopes sent) and no two
\* envelopes carry the same requestId.
C7_AtomicIds ==
    /\ \A i, j \in 1..Len(issued) : i # j => issued[i] # issued[j]
    /\ (\A t \in Threads : tpc[t] = "ready") =>
          command_id = InitialCommandId + Len(issued)

(* ----------------------------------------------------------------- C8 *)

\* A transport failure as the spec lists it: timeout, refused connection, or
\* an HTTP status outside 2xx.
TransportFailure(r) == r.transport # "ok" \/ r.status \notin 200..299

\* C8: a send_command (here through get_status1) whose POST failed in
\* transport has raised a transport error instead of returning a response,
\* and sent the request once.
C8_TransportFailureRaises ==
    (op = "get_status1" /\ pc \in {"returned", "raised"}
       /\ TransportFailure(log[1].resp))
    => /\ pc = "raised"
       /\ result.error \in {"Timeout", "ConnectionError", "HTTPError"}
       /\ Len(log) = 1

(* ----------------------------------------------------------------- C9 *)

\* The exception Python raises in get_state for the answer r ("" when none).
PollError(r) ==
    IF r.transport = "timeout" THEN "Timeout"
    ELSE IF r.transport = "refused" THEN "ConnectionError"
    ELSE IF ~r.xml THEN "ParseError"
    ELSE IF ~r.hasState THEN "AttributeError"
    ELSE IF r.state \notin {"idle", "busy"} THEN "ValueError"
    ELSE ""

Unreachable ==
    \A i \in 1..Len(log) : log[i].kind = "req" => log[i].resp.transport # "ok"

\* Every answer of the operation so far reported inError, and at least one
\* status poll was answered.
PermanentlyInError ==
    /\ Len(log) >= 2
    /\ \A i \in 1..Len(log) :
          log[i].kind = "req" => Reports(log[i].resp, "inError")

\* Every status poll so far reported busy.
AlwaysBusy ==
    /\ log[1].resp.transport = "ok"
    /\ \A i \in 2..Len(log) : IsPoll(i) => Reports(log[i].resp, "busy")

\* C10 as stated: with an unreachable device or one that permanently reports
\* an error state the operation is still blocked: it has neither returned nor
\* raised.
C10_Original ==
    (InOperation /\ (Unreachable \/ PermanentlyInError))
    => pc \in {"polling", "sleeping"}

\* C10 amended: the loop gives up on nothing but idle or an exception (a
\* device that answers busy keeps the operation waiting, however many polls
\* were made); an unreachable device ends the operation at the command with
\* the transport exception, a device that permanently reports inError ends it
\* at the first poll with ValueError; in both cases the operation has not
\* slept and does not return normally.
C10_EndsByRaising ==
    InOperation =>
        /\ Unreachable =>
              /\ pc = "raised"
              /\ Len(log) = 1
              /\ result.error \in {"Timeout", "ConnectionError"}
        /\ PermanentlyInError =>
              /\ pc = "raised"
              /\ Len(log) = 2
              /\ result.error = "ValueError"
        /\ AlwaysBusy => pc \in {"polling", "sleeping"}

C10_Witness ==
    /\ op = "close_door"
    /\ PermanentlyInError
    /\ pc = "raised"

(* ---------------------------------------------------------------- C11 *)

\* The command name the operation in progress has to send.
FixedCommand ==
    IF op = "open_door" THEN "OpenDoor"
    ELSE IF op = "close_door" THEN "CloseDoor"
    ELSE "StopMethod"

\* The parts of an envelope without payload: no ParamsXML among them.
BareEnvelopeParts == {"command", "requestId", "lockId", "soapAction"}

\* C11: the first request of open_door, close_door and stop carries the
\* operation's fixed command name, a nil lockId and no payload; it is the
\* only request of the operation with that name, and every other request of
\* the operation is a GetStatus poll.
C11_CommandSentOnce ==
    InOperation =>
        /\ Len(log) >= 1
        /\ log[1].kind = "req"
        /\ log[1].envelope.command = FixedCommand
        /\ log[1].envelope.soapAction = FixedCommand
        /\ log[1].envelope.lockId = "nil"
        /\ DOMAIN log[1].envelope = BareEnvelopeParts
        /\ Cardinality({i \in 1..Len(log) :
               log[i].kind = "req" /\ log[i].envelope.command = FixedCommand}) = 1
        /\ \A i \in 2..Len(log) :
               log[i].kind = "req" =>
                   /\ log[i].envelope.command = "GetStatus"
                   /\ DOMAIN log[i].envelope = BareEnvelopeParts

\* stop sent StopMethod once and polled three times.
C11_Witness ==
    /\ op = "stop"
    /\ log[1].envelope.command = "StopMethod"
    /\ NumPolls = 3
    /\ pc = "sleeping"

(* ---------------------------------------------------------------- C12 *)

Abandoned == pc = "raised" /\ result.error = "CancelledError"

\* The requestIds of the requests of the call in progress, in order.
LogIds == [i \in {j \in 1..Len(log) : log[j].kind = "req"} |-> log[i].envelope.requestId]

\* The index in log of the last request of the call in progress.
LastReqIndex == IF LastEntry.kind = "req" THEN Len(log) ELSE Len(log) - 1

\* The counter and the wire agree, and an operation made after an abandoned
\* wait has the shape of an operation on a fresh client: its command first,
\* then polls, ids growing by one up to the counter, a normal return only
\* after an idle poll and with the command's response.
C12_ClientSound ==
    /\ command_id = InitialCommandId + Len(issued)
    /\ \A i \in 1..Len(issued) : issued[i] = InitialCommandId + i
    /\ (cancels > 0 /\ InOperation /\ ~Abandoned) =>
          /\ log[1].kind = "req"
          /\ log[1].envelope.command = FixedCommand
          /\ \A i \in 2..Len(log) :
                log[i].kind = "req" => log[i].envelope.command = "GetStatus"
          /\ \A i, j \in DOMAIN LogIds :
                i < j => LogIds[j] - LogIds[i] =
                             Cardinality({k \in DOMAIN LogIds : i < k /\ k <= j})
          /\ LogIds[LastReqIndex] = command_id
          /\ pc = "returned" =>
                /\ Reports(LastEntry.resp, "idle")
                /\ result.response = log[1].resp
          /\ pc \in {"polling", "sleeping"} =>
                (Len(log) >= 2 => Reports(log[LastReqIndex].resp, "busy"))

\* A cancellation is delivered to an operation suspended in its sleep, ends
\* it and sends nothing; after it the next request of the client is the
\* first of a new call and carries the next id.
C12_CancelStep ==
    /\ (cancels' # cancels) =>
          /\ pc = "sleeping"
          /\ pc' = "raised"
          /\ result'.error = "CancelledError"
          /\ UNCHANGED <<command_id, issued, log, posts>>
    /\ (Abandoned /\ issued' # issued) =>
          /\ Len(log') = 1
          /\ log'[1].envelope.requestId = command_id + 1
          /\ command_id' = command_id + 1

\* C12: abandoning an idle-wait between two polls leaves the client sound:
\* nothing more is sent for the abandoned operation, the counter equals its
\* initial value plus the number of envelopes built, and the next operation
\* on the client runs as on a fresh client, its ids continuing by one.
C12_AbandonedWait == []C12_ClientSound /\ [][C12_CancelStep]_vars

\* On one client: a wait abandoned after a busy poll, then an operation that
\* returned after an idle poll.
C12_Witness ==
    /\ cancels = 1
    /\ InOperation
    /\ pc = "returned"
    /\ Len(issued) = 4
    /\ Len(log) = 2
    /\ \A i \in 1..Len(posts) : posts[i].self = inst

(* ---------------------------------------------------------------- C13 *)

\* A step whose goto_number points at itself or forward.
ForwardGoto(st) == st.goto_number > 0 /\ st.goto_number >= st.number

\* C13: encoding a MethodStep with 0 < number <= goto_number, alone or inside
\* a Method, fails with a validation error and produces no XML; a step with
\* goto_number = 0 is not rejected.
C13_ForwardGotoRejected ==
    encoded.done =>
        /\ value.kind = "MethodStep" =>
              (encoded.raised <=> ForwardGoto(value.self))
        /\ value.kind = "Method" =>
              ((\E i \in 1..Len(value.self.steps) : ForwardGoto(value.self.steps[i]))
                  => encoded.raised)

(* ---------------------------------------------------------------- C14 *)

\* The tags of Method's scalar fields, in declaration order.
MethodScalarTags ==
    <<"Variant", "PlateType", "FluidQuantity", "PostHeating",
      "StartBlockTemperature", "StartLidTemperature">>

\* The text of the child of element e with the given tag.
ChildText(e, tag) ==
    e.children[CHOOSE i \in 1..Len(e.children) : e.children[i].tag = tag].text

\* C14: an encoded Method is a Method element whose children are the six
\* scalar text elements in declaration order, then one Step per entry of
\* steps in input order, then exactly one PIDSet holding one PID per entry of
\* pid_set in order; its attributes are exactly methodName, creator,
\* description and dateTime.
C14_MethodShape ==
    (value.kind = "Method" /\ encoded.done) =>
        LET e == encoded.out
            m == value.self
            n == Len(m.steps)
            k == Len(MethodScalarTags)
        IN  /\ ~encoded.raised
            /\ e.tag = "Method"
            /\ Len(e.children) = k + n + 1
            /\ \A i \in 1..k :
                  /\ e.children[i].tag = MethodScalarTags[i]
                  /\ e.children[i].children = <<>>
            /\ e.children[4].text = (IF m.post_heating THEN "True" ELSE "False")
            /\ \A i \in 1..n :
                  /\ e.children[k + i].tag = "Step"
                  /\ ChildText(e.children[k + i], "Number") = ToString(m.steps[i].number)
                  /\ ChildText(e.children[k + i], "GotoNumber")
                        = ToString(m.steps[i].goto_number)
                  /\ ChildText(e.children[k + i], "LoopNumber")
                        = ToString(m.steps[i].loop_number)
            /\ e.children[k + n + 1].tag = "PIDSet"
            /\ Cardinality({i \in 1..Len(e.children) : e.children[i].tag = "PIDSet"}) = 1
            /\ Len(e.children[k + n + 1].children) = Len(m.pid_set)
            /\ \A i \in 1..Len(m.pid_set) :
                  /\ e.children[k + n + 1].children[i].tag = "PID"
                  /\ e.children[k + n + 1].children[i].attrib.number = m.pid_set[i].number
            /\ DOMAIN e.attrib = {"methodName", "creator", "description", "dateTime"}

\* The two-step Method {number 1, goto 0}, {number 2, goto 1, loop 3} with
\* two PID entries has been encoded.
C14_Witness ==
    /\ value.kind = "Method"
    /\ encoded.done
    /\ Len(value.self.steps) = 2
    /\ value.self.steps[1].number = 1
    /\ value.self.steps[1].goto_number = 0
    /\ value.self.steps[2].number = 2
    /\ value.self.steps[2].goto_number = 1
    /\ value.self.steps[2].loop_number = 3
    /\ Len(value.self.pid_set) = 2
    /\ value.self.pid_set[1].number # value.self.pid_set[2].number

(* ---------------------------------------------------------------- C16 *)

\* C16: MetaData.to_dict gives exactly the keys methodName, creator,
\* description and dateTime; an empty or None creator or description is the
\* empty string under its key, any other is kept as it is.
C16_FourKeys ==
    (value.kind = "MetaData" /\ encoded.done) =>
        LET d == encoded.out
            m == value.self
        IN  /\ ~encoded.raised
            /\ DOMAIN d = {"methodName", "creator", "description", "dateTime"}
            /\ d.methodName = m.method_name
            /\ d.creator = (IF m.creator \in {"", PyNone} THEN "" ELSE m.creator)
            /\ d.description =
                  (IF m.description \in {"", PyNone} THEN "" ELSE m.description)

\* A MetaData with creator None and an empty description has been converted.
C16_Witness ==
    /\ value.kind = "MetaData"
    /\ encoded.done
    /\ value.self.creator = PyNone
    /\ value.self.description = ""

(* ---------------------------------------------------------------- C15 *)

\* C15: every finished get_status() call has built and sent exactly one
\* GetStatus envelope carrying the counter's new value, and when it returns it
\* returns the device's raw response to that request.
C15_GetStatusSugar ==
    (op = "get_status" /\ pc \in {"returned", "raised"}) =>
        /\ Len(log) = 1
        /\ IsPoll(1)
        /\ log[1].envelope = Envelope("GetStatus", command_id)
        /\ issued[Len(issued)] = command_id
        /\ pc = "returned" => result.response = log[1].resp

(* ---------------------------------------------------------------- C18 *)

\* C18: over all instances, in issuance order, the n-th envelope carries
\* InitialCommandId + n: the ids start at 980077707, rise by one per
\* envelope whichever instance sends, the counter stands at the last id
\* issued, and no two envelopes, of one instance or of two, share an id.
C18_SharedCounter ==
    /\ Len(posts) = Len(issued)
    /\ \A i \in 1..Len(issued) : issued[i] = InitialCommandId + i
    /\ Len(issued) >= 1 => issued[1] = 980077707
    /\ command_id = InitialCommandId + Len(issued)
    /\ \A i, j \in 1..Len(issued) :
          (i < j) => /\ issued[i] < issued[j]
                     /\ (posts[i].self # posts[j].self => issued[i] # issued[j])

\* Two instances have sent envelopes in turn.
C18_Witness ==
    /\ Len(posts) = 4
    /\ posts[1].self = 1
    /\ posts[2].self = 2
    /\ posts[3].self = 1
    /\ posts[4].self = 2
    /\ issued[4] = InitialCommandId + 4

(* ---------------------------------------------------------------- C19 *)

\* C19: after a POST that failed in transport the counter is not below the
\* failed request's id (right after the failure it equals it), and every
\* envelope issued later, by any call, carries a strictly larger id.
C19_IdConsumedOnFailure ==
    /\ \A i \in 1..Len(posts) :
          posts[i].failed =>
              /\ command_id >= issued[i]
              /\ \A j \in 1..Len(issued) : (j > i) => issued[j] > issued[i]
    /\ (Len(posts) >= 1 /\ posts[Len(posts)].failed) =>
          /\ command_id = issued[Len(issued)]
          /\ command_id = InitialCommandId + Len(issued)

\* A call failed in transport at its only request, and the next call, a
\* stop, has sent its command.
C19_Witness ==
    /\ Len(posts) = 3
    /\ ~posts[1].failed
    /\ posts[2].failed
    /\ ~posts[3].failed
    /\ op = "stop"
    /\ Len(log) = 1
    /\ pc = "polling"
    /\ log[1].envelope.requestId = issued[2] + 1

(* ---------------------------------------------------------------- C20 *)

\* C20: while every poll of an open_door, close_door or stop has reported
\* busy, the operation has neither returned nor raised; its history after the
\* command is poll, sleep, poll, sleep, ...; the counter stands at the
\* command's id plus the number of polls; and the next step of the loop (the
\* sleep after a poll, the poll after a sleep) can always be taken, however
\* many polls were made.
C20_BusyForever ==
    (InOperation /\ AlwaysBusy) =>
        /\ pc \in {"polling", "sleeping"}
        /\ result = NoResult
        /\ \A i \in 2..Len(log) :
              /\ (i % 2 = 0) => IsPoll(i)
              /\ (i % 2 = 1) => IsSleep(i)
        /\ (pc = "sleeping") <=> (Len(log) >= 2 /\ IsPoll(Len(log)))
        /\ NumSleeps \in {NumPolls - 1, NumPolls}
        /\ command_id = log[1].envelope.requestId + NumPolls
        /\ (pc = "sleeping") => ENABLED wrapper_sleep
        /\ (pc = "polling" /\ NumRequests < MaxRequests) => ENABLED wrapper_poll

\* Three polls were answered busy and the operation is about to sleep again.
C20_Witness ==
    /\ InOperation
    /\ AlwaysBusy
    /\ NumPolls = 3
    /\ NumBusy = 3
    /\ pc = "sleeping"

(* ---------------------------------------------------------------- C17 *)

\* The device of the idle-wait's liveness: every request of the operation is
\* answered (no transport failure), every status poll reports busy or idle,
\* and idle does come: the device answers busy only while another poll can
\* still be made.
DeviceEventuallyIdle ==
    /\ \A i \in 1..Len(log) :
          log[i].kind = "req" => log[i].resp.transport = "ok"
    /\ \A i \in 2..Len(log) :
          IsPoll(i) => \/ Reports(log[i].resp, "busy")
                       \/ Reports(log[i].resp, "idle")
    /\ (Len(log) = 1 \/ Reports(log[Len(log)].resp, "busy")) =>
          NumRequests < MaxRequests

\* open_door, close_door or stop, called on that device.
live_call == (open_door \/ close_door \/ stop) /\ DeviceEventuallyIdle'

\* One poll of the wrapper's loop, answered by that device.
live_poll == wrapper_poll /\ DeviceEventuallyIdle'

NextLive ==
    \/ live_call
    \/ live_poll
    \/ wrapper_sleep

\* The event loop resumes the coroutine: a pending poll is made, a sleep that
\* was started ends.  Nothing obliges the caller to start an operation.
Fairness == WF_vars(live_poll) /\ WF_vars(wrapper_sleep)

SpecLive == Init /\ [][NextLive]_vars /\ Fairness

\* The operation ends at its first idle poll and nowhere else: a poll that
\* reported idle is the last entry and the operation has returned, and an
\* operation that has returned saw busy at every poll before the last.
C17_ReturnsAtFirstIdle ==
    InOperation =>
        /\ \A i \in 2..Len(log) :
              (IsPoll(i) /\ Reports(log[i].resp, "idle")) =>
                  i = Len(log) /\ pc = "returned"
        /\ pc = "returned" =>
              /\ Reports(LastEntry.resp, "idle")
              /\ \A i \in 2..(Len(log) - 1) :
                    IsPoll(i) => Reports(log[i].resp, "busy")

\* C17: on a device whose answers all arrive, that reports busy until it
\* reports idle and does report idle, an open_door, close_door or stop that
\* is waiting eventually returns, under fair scheduling of the polls and
\* sleeps, and it returns right after the first poll that reports idle.
C17_IdleWaitTerminates ==
    /\ []C17_ReturnsAtFirstIdle
    /\ (InOperation /\ pc \in {"polling", "sleeping"})
          ~> (InOperation /\ pc = "returned")

\* close_door returned at its third poll, the first to report idle.
C17_Witness ==
    /\ op = "close_door"
    /\ pc = "returned"
    /\ Len(log) = 6
    /\ Reports(log[2].resp, "busy")
    /\ Reports(log[4].resp, "busy")
    /\ Reports(log[6].resp, "idle")
    /\ DeviceEventuallyIdle

====
